---------------------------- MODULE Spec2Model ----------------------------
(***************************************************************************)
(* The two-adic FRI polynomial commitment scheme of fri/src/two_adic_pcs.rs *)
(* (commit, get_evaluations_on_domain, open, verify and the arity-2 folding *)
(* strategy), instantiated over the two-adic prime field F_17.              *)
(*                                                                         *)
(* Indices are 0-based in the code and 1-based in TLA+ sequences: row i of  *)
(* a matrix is m[i + 1].                                                    *)
(***************************************************************************)
EXTENDS Integers, Sequences, FiniteSets, TLC

(***************************************************************************)
(* The field Val (and Challenge, taken as the degree-1 extension of Val).   *)
(***************************************************************************)
\* The modulus of Val: a two-adic prime, 17 = 2^4 + 1.
P == 17

\* Val::GENERATOR: a generator of the multiplicative group of F_17.
GENERATOR == 3

\* Val::TWO_ADICITY: 2^4 divides P - 1.
TWO_ADICITY == 4

F == 0 .. (P - 1)

Add(a, b) == (a + b) % P

Sub(a, b) == (a - b + P) % P

Mul(a, b) == (a * b) % P

RECURSIVE Pow2(_)
Pow2(n) == IF n = 0 THEN 1 ELSE 2 * Pow2(n - 1)

\* exp_u64: square-and-multiply.
RECURSIVE exp_u64(_, _)
exp_u64(a, n) ==
    IF n = 0 THEN 1
    ELSE LET r == exp_u64(Mul(a, a), n \div 2)
         IN  IF n % 2 = 1 THEN Mul(a, r) ELSE r

\* inverse() of a non-zero element (a^(P-2)); callers guard against zero,
\* where the code panics with "Tried to invert zero".
inverse(a) == exp_u64(a, P - 2)

\* halve(): multiplication by 1/2.
halve(a) == Mul(a, inverse(2))

\* F::two_adic_generator(bits): a generator of the subgroup of order 2^bits.
two_adic_generator(bits) == exp_u64(GENERATOR, (P - 1) \div Pow2(bits))

\* base.shifted_powers(shift).collect_n(n): shift * base^i for i < n.
shifted_powers(base, shift, n) == [i \in 1 .. n |-> Mul(shift, exp_u64(base, i - 1))]

(***************************************************************************)
(* p3_util: bit reversal and logarithms.                                    *)
(***************************************************************************)
\* reverse_bits_len(x, bit_len): the low bit_len bits of x, reversed.
RECURSIVE reverse_bits_len(_, _)
reverse_bits_len(x, bit_len) ==
    IF bit_len = 0 THEN 0
    ELSE (x % 2) * Pow2(bit_len - 1) + reverse_bits_len(x \div 2, bit_len - 1)

IsPow2(n) == \E k \in 0 .. TWO_ADICITY : Pow2(k) = n

\* log2_strict_usize(n): defined for powers of two only (the code panics otherwise).
log2_strict_usize(n) == CHOOSE k \in 0 .. TWO_ADICITY : Pow2(k) = n

\* reverse_slice_index_bits(s): s permuted by bit reversal of its indices.
reverse_slice_index_bits(s) ==
    LET n == log2_strict_usize(Len(s))
    IN  [i \in 1 .. Len(s) |-> s[reverse_bits_len(i - 1, n) + 1]]

(***************************************************************************)
(* State.                                                                   *)
(***************************************************************************)
VARIABLES
    \* The folding strategy (TwoAdicFriFolding), driven by the FRI round loop.
    fold_in,        \* [log_height, beta, m]: the vector being folded, as rows (lo, hi)
    fold_index,     \* the row index of the last fold_row call, or -1
    row_out,        \* the result of the last fold_row call (0 before the first)
    mat_out,        \* the result of fold_matrix, or <<>>
    \* The commitment scheme (TwoAdicFriPcs) and its MMCS collaborator.
    pc,             \* the position of the caller: which operation runs next
    evaluations,    \* per commitment, the (domain, matrix) pairs given to commit
    prover_data,    \* per mmcs.commit call, the matrices handed to it (get_matrices)
    geod,           \* the last get_evaluations_on_domain call and its outcome
    points,         \* open's input: per commitment, per matrix, the points to open
    cursor,         \* the (commitment, matrix) the running loop of open is at
    coset,          \* open: the bit-reversed coset table
    inv_denoms,     \* open: the map from opening point to its vector of 1/(z - x)
    all_opened_values,  \* open: per commitment, matrix and point, the values ys
    challenger,     \* the prover's transcript: the observe and sample calls made
    alpha,          \* open: the batching challenge (-1 before it is sampled)
    num_reduced,    \* open: per log_height, the columns reduced so far
    reduced_openings,   \* open: per log_height, <<>> (None) or the reduced vector
    reduce_log,     \* open: per reduced (matrix, point), the alpha offset used
    fri_input,      \* open: the vectors passed to prove_fri
    proof,          \* what prove_fri returned
    claimed,        \* verify's input: per commitment and matrix, (point, values)
    vproof,         \* verify's input: the proof
    vcursor,        \* the commitment the observing loop of verify is at
    vchallenger,    \* the verifier's transcript
    fri_result,     \* what verify_fri returned
    verify_result   \* what verify returned

fold_vars == <<fold_in, fold_index, row_out, mat_out>>

commit_vars == <<evaluations, prover_data>>

open_vars == <<points, cursor, coset, inv_denoms, all_opened_values, challenger,
               alpha, num_reduced, reduced_openings, reduce_log, fri_input, proof>>

verify_vars == <<claimed, vproof, vcursor, vchallenger, fri_result, verify_result>>

pcs_vars == <<pc, evaluations, prover_data, geod, open_vars, verify_vars>>

\* The log-heights the arrays num_reduced and reduced_openings are indexed by
\* (32 entries in the code; the heights of this field end at 2^TWO_ADICITY).
LogHeights == 0 .. TWO_ADICITY

NoProof == [transcript |-> <<>>, inputs |-> <<>>, log_max_height |-> 0]

NoResult == [ok |-> FALSE, err |-> "none"]

\* open before its first statement.
OpenIdle ==
    /\ cursor = [r |-> 1, j |-> 1]
    /\ coset = <<>>
    /\ inv_denoms = <<>>
    /\ all_opened_values = <<>>
    /\ challenger = <<>>
    /\ alpha = -1
    /\ num_reduced = [lh \in LogHeights |-> 0]
    /\ reduced_openings = [lh \in LogHeights |-> <<>>]
    /\ reduce_log = <<>>
    /\ fri_input = <<>>
    /\ proof = NoProof

\* verify before its first statement.
VerifyIdle ==
    /\ claimed = <<>>
    /\ vproof = NoProof
    /\ vcursor = 1
    /\ vchallenger = <<>>
    /\ fri_result = NoResult
    /\ verify_result = NoResult

\* The folding strategy not in use.
NoFold == [log_height |-> 0, beta |-> 0, m |-> <<>>]

FoldIdle ==
    /\ fold_in = NoFold
    /\ fold_index = -1
    /\ row_out = 0
    /\ mat_out = <<>>

NoGeod == [round |-> 0, idx |-> 0, domain |-> [shift |-> 0, log_size |-> 0],
           outcome |-> "none", view |-> <<>>]

vars == <<fold_vars, pcs_vars>>

(***************************************************************************)
(* TwoAdicFriFolding: the arity-2 folding strategy.                         *)
(***************************************************************************)
\* fold_row with the index bits used as they are (no bit reversal).
fold_row_no_bitrev(index, log_height, beta, evals) ==
    LET x0 == exp_u64(two_adic_generator(log_height + 1), index)
        x1 == Mul(x0, two_adic_generator(1))
    IN  Add(evals[1], Mul(Mul(Sub(beta, x0), Sub(evals[2], evals[1])),
                          inverse(Sub(x1, x0))))

fold_row(index, log_height, beta, evals) ==
    LET arity == 2
        log_arity == 1
        e0 == evals[1]
        e1 == evals[2]
        subgroup_start == exp_u64(two_adic_generator(log_height + log_arity),
                                  reverse_bits_len(index, log_height))
        xs == reverse_slice_index_bits(
                  shifted_powers(two_adic_generator(log_arity), subgroup_start, arity))
    IN  Add(e0, Mul(Mul(Sub(beta, xs[1]), Sub(e1, e0)), inverse(Sub(xs[2], xs[1]))))

\* fold_matrix with halve_inv_powers left in natural order.
fold_matrix_no_bitrev(beta, m) ==
    LET g_inv == inverse(two_adic_generator(log2_strict_usize(Len(m)) + 1))
        halve_inv_powers == shifted_powers(g_inv, halve(1), Len(m))
    IN  [i \in 1 .. Len(m) |->
            Add(halve(Add(m[i][1], m[i][2])),
                Mul(Mul(Sub(m[i][1], m[i][2]), beta), halve_inv_powers[i]))]

fold_matrix(beta, m) ==
    LET g_inv == inverse(two_adic_generator(log2_strict_usize(Len(m)) + 1))
        halve_inv_powers ==
            reverse_slice_index_bits(shifted_powers(g_inv, halve(1), Len(m)))
    IN  [i \in 1 .. Len(m) |->
            LET lo == m[i][1]
                hi == m[i][2]
            IN  Add(halve(Add(lo, hi)), Mul(Mul(Sub(lo, hi), beta), halve_inv_powers[i]))]

(***************************************************************************)
(* The folding strategy as a state machine: the FRI round loop calls        *)
(* fold_matrix on the whole vector (prover) and fold_row on one sibling     *)
(* pair (verifier).                                                         *)
(***************************************************************************)
\* Largest log-height of a folded vector explored (log_height + 1 <= TWO_ADICITY).
MaxFoldLog == 2

\* Seeds of the evaluation vectors explored.
MaxSeed == 2

\* The evaluation vectors of height 2^k explored, as rows of sibling pairs.
FoldMatrices(k) ==
    { [i \in 1 .. Pow2(k) |-> << (a + 3 * i) % P, (b + 5 * i * i) % P >>] :
        a \in 0 .. MaxSeed, b \in 0 .. MaxSeed }

FoldInit ==
    /\ \E k \in 0 .. MaxFoldLog, beta \in F :
         \E m \in FoldMatrices(k) :
            fold_in = [log_height |-> k, beta |-> beta, m |-> m]
    /\ fold_index = -1
    /\ row_out = 0
    /\ mat_out = <<>>
    /\ pc = "fold"
    /\ evaluations = <<>>
    /\ prover_data = <<>>
    /\ geod = NoGeod
    /\ OpenIdle
    /\ points = <<>>
    /\ VerifyIdle

FoldRow ==
    /\ \E index \in 0 .. (Len(fold_in.m) - 1) :
         /\ fold_index' = index
         /\ row_out' = fold_row(index, fold_in.log_height, fold_in.beta,
                                fold_in.m[index + 1])
    /\ UNCHANGED <<fold_in, mat_out, pcs_vars>>

FoldMatrix ==
    /\ mat_out = <<>>
    /\ mat_out' = fold_matrix(fold_in.beta, fold_in.m)
    /\ UNCHANGED <<fold_in, fold_index, row_out, pcs_vars>>

FoldNext == FoldRow \/ FoldMatrix

SpecFold == FoldInit /\ [][FoldNext]_vars

(***************************************************************************)
(* Claims about the folding strategy (checked under SpecFold).             *)
(***************************************************************************)
\* C4: folding agreement. Whenever the row fold of sibling pair (lo_i, hi_i) at
\* row index i and the matrix fold of the whole vector have both been computed
\* for the same height 2^k and challenge beta, the row fold equals the i-th
\* element of the matrix fold.
C4_FoldingAgreement ==
    (fold_index # -1 /\ mat_out # <<>>) => row_out = mat_out[fold_index + 1]

\* C4 witness: both folds done on a vector of height 4, at a row whose bit
\* reversal differs from the index, with lo # hi and beta # 0.
C4_Witness ==
    /\ fold_index # -1
    /\ mat_out # <<>>
    /\ fold_in.log_height = 2
    /\ fold_index = 1
    /\ fold_in.beta # 0
    /\ fold_in.m[fold_index + 1][1] # fold_in.m[fold_index + 1][2]
    /\ row_out = mat_out[fold_index + 1]

\* C5: fold_row returns the value at beta of the line through (x0, e0) and
\* (x1, e1), where x0 = g^bitrev(index, log_height) for g the generator of the
\* subgroup of size 2^(log_height + 1) and x1 = -x0: x0 and x1 are distinct with
\* the same square, (result - e0)(x1 - x0) = (beta - x0)(e1 - e0), the result
\* is e0 at beta = x0 and e1 at beta = x1.
C5_FoldRowInterpolates ==
    fold_index # -1 =>
        LET k == fold_in.log_height
            beta == fold_in.beta
            e0 == fold_in.m[fold_index + 1][1]
            e1 == fold_in.m[fold_index + 1][2]
            x0 == exp_u64(two_adic_generator(k + 1), reverse_bits_len(fold_index, k))
            x1 == Sub(0, x0)
        IN  /\ x0 # x1
            /\ Mul(x0, x0) = Mul(x1, x1)
            /\ Mul(Sub(row_out, e0), Sub(x1, x0)) = Mul(Sub(beta, x0), Sub(e1, e0))
            /\ (beta = x0 => row_out = e0)
            /\ (beta = x1 => row_out = e1)

\* C5 witness: a row fold at beta = x1 of a pair with e0 # e1, at an index whose
\* bit reversal differs from the index.
C5_Witness ==
    /\ fold_index # -1
    /\ fold_in.log_height = 2
    /\ fold_index = 2
    /\ fold_in.beta = Sub(0, exp_u64(two_adic_generator(3), 1))
    /\ fold_in.m[3][1] # fold_in.m[3][2]
    /\ row_out = fold_in.m[3][2]

(***************************************************************************)
(* Matrices (row-major: a sequence of rows) and domains.                    *)
(***************************************************************************)
height(mat) == Len(mat)

width(mat) == IF Len(mat) = 0 THEN 0 ELSE Len(mat[1])

\* TwoAdicMultiplicativeCoset: shift * H with |H| = 2^log_size.
DomainSize(domain) == Pow2(domain.log_size)

\* coset.iter(): shift * w^i for i < 2^log_size, w the generator of H.
CosetIter(shift, log_size) ==
    shifted_powers(two_adic_generator(log_size), shift, Pow2(log_size))

\* bit_reverse_rows(): row i of the result is row bitrev(i) of mat.
bit_reverse_rows(mat) == reverse_slice_index_bits(mat)

\* split_rows(r).0: the first r rows.
split_rows(mat, r) == SubSeq(mat, 1, r)

RECURSIVE SumSeq(_)
SumSeq(s) == IF s = <<>> THEN 0 ELSE Add(s[1], SumSeq(Tail(s)))

RECURSIVE ProdSeq(_)
ProdSeq(s) == IF s = <<>> THEN 1 ELSE Mul(s[1], ProdSeq(Tail(s)))

\* The value at u of the polynomial of degree < Len(xs) through (xs[i], vs[i]).
Lagrange(xs, vs, u) ==
    SumSeq([i \in 1 .. Len(xs) |->
        Mul(vs[i], ProdSeq([j \in 1 .. Len(xs) |->
            IF j = i THEN 1
            ELSE Mul(Sub(u, xs[j]), inverse(Sub(xs[i], xs[j])))]))])

Column(mat, c) == [i \in 1 .. Len(mat) |-> mat[i][c]]

\* dft.coset_lde_batch(evals, added_bits, shift): each column, read as the
\* evaluations of a polynomial q of degree < height over the subgroup H in
\* natural order, is evaluated over shift * K, |K| = height << added_bits.
coset_lde_batch(evals, added_bits, shift) ==
    LET log_h == log2_strict_usize(height(evals))
        xs == CosetIter(1, log_h)
        out == CosetIter(shift, log_h + added_bits)
    IN  [i \in 1 .. Len(out) |->
            [c \in 1 .. width(evals) |-> Lagrange(xs, Column(evals, c), out[i])]]

(***************************************************************************)
(* The inputs explored.                                                     *)
(***************************************************************************)
\* The largest number of matrices in a batch.
MaxMats == 3

MatA == << <<1, 2>>, <<3, 4>> >>

MatB == << <<5>>, <<0>>, <<7>>, <<2>> >>

MatC == << <<6>>, <<1>> >>

MatD == << <<9, 4>> >>

Pair(shift, log_size, evals) ==
    [domain |-> [shift |-> shift, log_size |-> log_size], evals |-> evals]

\* (domain, matrix) pairs with domain.size() = matrix.height().
ValidPairs == {Pair(1, 1, MatA), Pair(1, 2, MatB), Pair(2, 1, MatC), Pair(1, 0, MatD)}

\* (domain, matrix) pairs that disagree.
BadPairs == {Pair(1, 2, MatA), Pair(1, 1, MatB)}

\* The non-empty sequences of at most n elements of S.
SeqsUpTo(S, n) == UNION {[1 .. t -> S] : t \in 1 .. n}

(***************************************************************************)
(* TwoAdicFriPcs::commit                                                    *)
(***************************************************************************)
\* self.fri.log_blowup
log_blowup == 1

\* The assertion made on the first pair only.
CommitAssertFails_first_only(round) ==
    DomainSize(round[1].domain) # height(round[1].evals)

\* assert_eq!(domain.size(), evals.height()) fails for some pair of the round.
CommitAssertFails(round) ==
    \E j \in 1 .. Len(round) : DomainSize(round[j].domain) # height(round[j].evals)

\* The LDE of one pair: onto the coset GENERATOR * K, rows bit-reversed.
CommitLde(pair) ==
    LET shift == Mul(GENERATOR, inverse(pair.domain.shift))
    IN  bit_reverse_rows(coset_lde_batch(pair.evals, log_blowup, shift))

\* ldes: one matrix per pair, in the order of the input.
CommitLdes(round) == [j \in 1 .. Len(round) |-> CommitLde(round[j])]

\* One call of commit, for the next commitment of the batch. The LDEs are all
\* computed (and every assertion checked) before mmcs.commit is called.
Commit ==
    /\ pc = "commit"
    /\ Len(prover_data) < Len(evaluations)
    /\ LET round == evaluations[Len(prover_data) + 1]
       IN  IF CommitAssertFails(round)
           THEN /\ pc' = "commit_panic"
                /\ prover_data' = prover_data
           ELSE /\ prover_data' = Append(prover_data, CommitLdes(round))
                /\ pc' = IF Len(prover_data) + 1 = Len(evaluations)
                         THEN "committed" ELSE "commit"
    /\ UNCHANGED <<evaluations, geod, open_vars, verify_vars, fold_vars>>

(***************************************************************************)
(* TwoAdicFriPcs::get_evaluations_on_domain                                 *)
(***************************************************************************)
\* get_evaluations_on_domain asserting lde.height() > domain.size().
get_evaluations_on_domain_strict(data, idx, domain) ==
    IF domain.shift # GENERATOR
    THEN [outcome |-> "assert_shift", view |-> <<>>]
    ELSE IF idx >= Len(data)
    THEN [outcome |-> "index_out_of_bounds", view |-> <<>>]
    ELSE IF ~(height(data[idx + 1]) > DomainSize(domain))
    THEN [outcome |-> "assert_height", view |-> <<>>]
    ELSE [outcome |-> "ok",
          view |-> bit_reverse_rows(split_rows(data[idx + 1], DomainSize(domain)))]

\* get_evaluations_on_domain returning the stored rows without bit_reverse_rows().
get_evaluations_on_domain_no_bitrev(data, idx, domain) ==
    IF domain.shift # GENERATOR
    THEN [outcome |-> "assert_shift", view |-> <<>>]
    ELSE IF idx >= Len(data)
    THEN [outcome |-> "index_out_of_bounds", view |-> <<>>]
    ELSE IF ~(height(data[idx + 1]) >= DomainSize(domain))
    THEN [outcome |-> "assert_height", view |-> <<>>]
    ELSE [outcome |-> "ok", view |-> split_rows(data[idx + 1], DomainSize(domain))]

\* The outcome of get_evaluations_on_domain(prover_data, idx, domain): the two
\* assertions, the index into get_matrices (a panic when out of bounds), the view.
get_evaluations_on_domain(data, idx, domain) ==
    IF domain.shift # GENERATOR
    THEN [outcome |-> "assert_shift", view |-> <<>>]
    ELSE IF idx >= Len(data)
    THEN [outcome |-> "index_out_of_bounds", view |-> <<>>]
    ELSE LET lde == data[idx + 1]
         IN  IF ~(height(lde) >= DomainSize(domain))
             THEN [outcome |-> "assert_height", view |-> <<>>]
             ELSE [outcome |-> "ok",
                   view |-> bit_reverse_rows(split_rows(lde, DomainSize(domain)))]

GetEvaluationsOnDomain ==
    /\ pc = "committed"
    /\ \E r \in 1 .. Len(prover_data), idx \in 0 .. MaxMats,
          shift \in {1, GENERATOR}, log_size \in 0 .. TWO_ADICITY :
         LET domain == [shift |-> shift, log_size |-> log_size]
             res == get_evaluations_on_domain(prover_data[r], idx, domain)
         IN  geod' = [round |-> r, idx |-> idx, domain |-> domain,
                      outcome |-> res.outcome, view |-> res.view]
    /\ UNCHANGED <<pc, commit_vars, open_vars, verify_vars, fold_vars>>

(***************************************************************************)
(* The Fiat-Shamir transcript (challenger): the log of the calls made on it. *)
(* A sample is a deterministic function of everything observed before it.   *)
(***************************************************************************)
Observe(v) == [op |-> "observe", val |-> v]

RECURSIVE TranscriptHash(_)
TranscriptHash(log) ==
    IF log = <<>> THEN 1
    ELSE (3 * TranscriptHash(SubSeq(log, 1, Len(log) - 1)) + log[Len(log)].val + 1) % P

\* challenger.sample_algebra_element()
Sample(log) == [op |-> "sample", val |-> TranscriptHash(log)]

\* challenger.observe_algebra_element(y) for each y of ys, in order.
ObserveAll(log, ys) == log \o [i \in 1 .. Len(ys) |-> Observe(ys[i])]

RECURSIVE Flatten(_)
Flatten(ss) == IF ss = <<>> THEN <<>> ELSE ss[1] \o Flatten(Tail(ss))

(***************************************************************************)
(* TwoAdicFriPcs::open                                                      *)
(***************************************************************************)
Max(a, b) == IF a >= b THEN a ELSE b

Min(a, b) == IF a <= b THEN a ELSE b

\* mats_and_points, flattened: every (matrix, points for the matrix) in order.
MatsAndPoints ==
    Flatten([r \in 1 .. Len(prover_data) |->
        [j \in 1 .. Min(Len(prover_data[r]), Len(points[r])) |->
            [mat |-> prover_data[r][j], points |-> points[r][j]]]])

RECURSIVE MaxSeq(_)
MaxSeq(s) == IF Len(s) = 1 THEN s[1] ELSE Max(s[1], MaxSeq(Tail(s)))

global_max_height ==
    MaxSeq([i \in 1 .. Len(MatsAndPoints) |-> height(MatsAndPoints[i].mat)])

global_max_width ==
    MaxSeq([i \in 1 .. Len(MatsAndPoints) |-> width(MatsAndPoints[i].mat)])

\* The coset GENERATOR * H of 2^log_height elements, left in natural order.
CosetTable_no_bitrev(log_height) == CosetIter(GENERATOR, log_height)

\* Lines 337-343 for a height 2^log_height: the coset GENERATOR * H collected
\* and its indices bit-reversed.
CosetTable(log_height) ==
    reverse_slice_index_bits(CosetIter(GENERATOR, log_height))

\* The coset GENERATOR * H of the largest height, bit-reversed.
OpenCoset == CosetTable(log2_strict_usize(global_max_height))

\* The log-height of the last matrix opened at z, not the largest.
max_log_height_for_point_last(mps, z) ==
    LET at == {i \in 1 .. Len(mps) : \E k \in 1 .. Len(mps[i].points) : mps[i].points[k] = z}
        last == CHOOSE i \in at : \A m \in at : m <= i
    IN  log2_strict_usize(height(mps[last].mat))

\* compute_inverse_denominators: max_log_height_for_point, the largest
\* log-height of a matrix opened at z.
max_log_height_for_point(mps, z) ==
    LET at == {i \in 1 .. Len(mps) : \E k \in 1 .. Len(mps[i].points) : mps[i].points[k] = z}
    IN  CHOOSE lh \in LogHeights :
           /\ \E i \in at : log2_strict_usize(height(mps[i].mat)) = lh
           /\ \A i \in at : log2_strict_usize(height(mps[i].mat)) <= lh

\* The distinct opening points of the batch (the keys of the LinearMap).
OpeningPoints(mps) ==
    UNION {{mps[i].points[k] : k \in 1 .. Len(mps[i].points)} : i \in 1 .. Len(mps)}

\* batch_multiplicative_inverse(xs): panics when some x is zero.
batch_multiplicative_inverse(xs) == [i \in 1 .. Len(xs) |-> inverse(xs[i])]

\* The differences z - x handed to batch_multiplicative_inverse for point z.
Denominators(mps, cs, z) ==
    [i \in 1 .. Pow2(max_log_height_for_point(mps, z)) |-> Sub(z, cs[i])]

\* compute_inverse_denominators(mats_and_points, coset)
compute_inverse_denominators(mps, cs) ==
    [z \in OpeningPoints(mps) |-> batch_multiplicative_inverse(Denominators(mps, cs, z))]

\* compute_inverse_denominators inverts a zero: some z - x is zero.
InvertsZero(mps, cs) ==
    \E z \in OpeningPoints(mps) :
       \E i \in 1 .. Len(Denominators(mps, cs, z)) : Denominators(mps, cs, z)[i] = 0

\* interpolate_coset_with_precomputation(coset_evals, shift, point, coset,
\* diff_invs): the barycentric formula
\*   f(z) = (z^h - shift^h) / (h * shift^h) * sum_i coset[i] * f(coset[i]) / (z - coset[i])
\* for each column of coset_evals.
interpolate_coset_with_precomputation(coset_evals, shift, point, cs, diff_invs) ==
    LET h == height(coset_evals)
        vanishing_polynomial == Sub(exp_u64(point, h), exp_u64(shift, h))
        denominator == Mul(h % P, exp_u64(shift, h))
        col_scale == [i \in 1 .. Min(Len(cs), Len(diff_invs)) |-> Mul(diff_invs[i], cs[i])]
        point_vanishing_quotient == Mul(vanishing_polynomial, inverse(denominator))
    IN  [c \in 1 .. width(coset_evals) |->
            Mul(point_vanishing_quotient,
                SumSeq([i \in 1 .. Min(h, Len(col_scale)) |->
                    Mul(col_scale[i], coset_evals[i][c])]))]

\* The values of one matrix at one point, interpolated over all the stored
\* rows and the coset of that many elements.
OpenedValuesAt_all_rows(mat, point) ==
    interpolate_coset_with_precomputation(
        mat, GENERATOR, point, SubSeq(coset, 1, height(mat)),
        SubSeq(inv_denoms[point], 1, height(mat)))

\* The values of one matrix at one point, interpolated with shift Val::ONE.
OpenedValuesAt_shift_one(mat, point) ==
    LET h == height(mat) \div Pow2(log_blowup)
    IN  interpolate_coset_with_precomputation(
            split_rows(mat, h), 1, point, SubSeq(coset, 1, h),
            SubSeq(inv_denoms[point], 1, h))

\* The values ys of one matrix at one point: the matrix and the coset are
\* truncated to h = mat.height() >> log_blowup rows, the inverse denominators
\* of the point to their first h entries.
OpenedValuesAt(mat, point) ==
    LET h == height(mat) \div Pow2(log_blowup)
        low_coset == split_rows(mat, h)
        coset_h == SubSeq(coset, 1, h)
    IN  interpolate_coset_with_precomputation(
            low_coset, GENERATOR, point, coset_h, SubSeq(inv_denoms[point], 1, h))

\* The opened values of one matrix: for each of its points, in order, the ys.
OpenedValuesForMat(mat, points_for_mat) ==
    [k \in 1 .. Len(points_for_mat) |-> OpenedValuesAt(mat, points_for_mat[k])]

\* The loops over the commitments and their matrices: the position after (r, j).
NextCursor(c) ==
    IF c.j < Len(prover_data[c.r]) THEN [r |-> c.r, j |-> c.j + 1]
    ELSE [r |-> c.r + 1, j |-> 1]

\* The loop over the matrices has ended.
LoopDone(c) == c.r > Len(prover_data)

\* The evaluations end one matrix early.
EvaluationDone_early(c) ==
    \/ LoopDone(c)
    \/ c.r = Len(prover_data) /\ c.j = Len(prover_data[c.r])

\* Lines 350-401 have run to their end: every matrix of every commitment has
\* been evaluated and its values observed before line 412 is reached.
EvaluationDone(c) == LoopDone(c)

\* Lines 307-347: the matrices, the global maxima, the coset table and the
\* inverse denominators. Panics without any matrix ("No Matrices Supplied?")
\* and when an opening point lies on the coset of a matrix opened at it.
OpenStart ==
    /\ pc = "committed"
    /\ IF MatsAndPoints = <<>>
       THEN /\ pc' = "open_panic"
            /\ UNCHANGED <<coset, inv_denoms>>
       ELSE /\ coset' = OpenCoset
            /\ IF InvertsZero(MatsAndPoints, OpenCoset)
               THEN /\ pc' = "open_panic"
                    /\ UNCHANGED inv_denoms
               ELSE /\ pc' = "open_eval"
                    /\ inv_denoms' = compute_inverse_denominators(MatsAndPoints, OpenCoset)
    /\ cursor' = [r |-> 1, j |-> 1]
    /\ UNCHANGED <<commit_vars, geod, points, all_opened_values, challenger, alpha,
                   num_reduced, reduced_openings, reduce_log, fri_input, proof,
                   verify_vars, fold_vars>>

\* Lines 350-401, one matrix: its values at each of its points are computed,
\* observed (point by point, column by column) and recorded.
OpenEvaluate ==
    /\ pc = "open_eval"
    /\ ~EvaluationDone(cursor)
    /\ LET mat == prover_data[cursor.r][cursor.j]
           yss == OpenedValuesForMat(mat, points[cursor.r][cursor.j])
       IN  /\ challenger' = ObserveAll(challenger, Flatten(yss))
           /\ all_opened_values' =
                 IF cursor.j = 1 THEN Append(all_opened_values, <<yss>>)
                 ELSE [all_opened_values EXCEPT ![cursor.r] = Append(@, yss)]
    /\ cursor' = NextCursor(cursor)
    /\ UNCHANGED <<pc, commit_vars, geod, points, coset, inv_denoms, alpha, num_reduced,
                   reduced_openings, reduce_log, fri_input, proof, verify_vars,
                   fold_vars>>

\* Line 412: the batch combination challenge.
OpenSample ==
    /\ pc = "open_eval"
    /\ EvaluationDone(cursor)
    /\ alpha' = Sample(challenger).val
    /\ challenger' = Append(challenger, Sample(challenger))
    /\ pc' = "open_reduce"
    /\ cursor' = [r |-> 1, j |-> 1]
    /\ UNCHANGED <<commit_vars, geod, points, coset, inv_denoms, all_opened_values,
                   num_reduced, reduced_openings, reduce_log, fri_input, proof,
                   verify_vars, fold_vars>>

\* packed_ext_powers_capped(alpha, global_max_width): alpha^0 .. alpha^(W-1).
alpha_powers == [c \in 1 .. global_max_width |-> exp_u64(alpha, c - 1)]

\* dot_product(xs, ys): over the common length of the two.
dot_product(xs, ys) ==
    SumSeq([c \in 1 .. Min(Len(xs), Len(ys)) |-> Mul(xs[c], ys[c])])

\* mat.rowwise_packed_dot_product(packed_alpha_powers): Mred(x) per row.
mat_compressed(mat) == [i \in 1 .. height(mat) |-> dot_product(alpha_powers, mat[i])]

\* One opening point reduced, with num_reduced[log_height] grown by one.
ReducePoint_increment_by_one(acc, mat, log_height, point, openings) ==
    LET alpha_pow_offset == exp_u64(alpha, acc.num)
        reduced_opening_z == dot_product(alpha_powers, openings)
        mc == mat_compressed(mat)
        n == Min(Min(Len(mc), Len(acc.ro)), Len(inv_denoms[point]))
    IN  [ro |-> [i \in 1 .. Len(acc.ro) |->
                   IF i <= n
                   THEN Add(acc.ro[i],
                            Mul(Mul(alpha_pow_offset, Sub(reduced_opening_z, mc[i])),
                                inv_denoms[point][i]))
                   ELSE acc.ro[i]],
         num |-> acc.num + 1,
         log |-> Append(acc.log, [log_height |-> log_height, point |-> point,
                                  offset |-> acc.num, width |-> width(mat),
                                  r |-> cursor.r, j |-> cursor.j])]

\* One opening point reduced without the factor alpha^offset.
ReducePoint_no_offset(acc, mat, log_height, point, openings) ==
    LET reduced_opening_z == dot_product(alpha_powers, openings)
        mc == mat_compressed(mat)
        n == Min(Min(Len(mc), Len(acc.ro)), Len(inv_denoms[point]))
    IN  [ro |-> [i \in 1 .. Len(acc.ro) |->
                   IF i <= n
                   THEN Add(acc.ro[i],
                            Mul(Sub(reduced_opening_z, mc[i]), inv_denoms[point][i]))
                   ELSE acc.ro[i]],
         num |-> acc.num + width(mat),
         log |-> Append(acc.log, [log_height |-> log_height, point |-> point,
                                  offset |-> acc.num, width |-> width(mat),
                                  r |-> cursor.r, j |-> cursor.j])]

\* Lines 476-499, one opening point of a matrix at log_height: the quotient
\* alpha^offset * (Mred(z) - Mred(x)) / (z - x) is added to every row the three
\* zipped vectors share, then num_reduced[log_height] grows by the width.
\* acc = [ro: the reduced opening, num: num_reduced[log_height], log: reduce_log].
ReducePoint(acc, mat, log_height, point, openings) ==
    LET alpha_pow_offset == exp_u64(alpha, acc.num)
        reduced_opening_z == dot_product(alpha_powers, openings)
        mc == mat_compressed(mat)
        n == Min(Min(Len(mc), Len(acc.ro)), Len(inv_denoms[point]))
    IN  [ro |-> [i \in 1 .. Len(acc.ro) |->
                   IF i <= n
                   THEN Add(acc.ro[i],
                            Mul(Mul(alpha_pow_offset, Sub(reduced_opening_z, mc[i])),
                                inv_denoms[point][i]))
                   ELSE acc.ro[i]],
         num |-> acc.num + width(mat),
         log |-> Append(acc.log, [log_height |-> log_height, point |-> point,
                                  offset |-> acc.num, width |-> width(mat),
                                  r |-> cursor.r, j |-> cursor.j])]

\* The loop over the points of one matrix with num_reduced[log_height] grown
\* once, by the width, after the loop.
RECURSIVE ReducePoints_increment_after_loop(_, _, _, _, _, _)
ReducePoints_increment_after_loop(acc, mat, log_height, points_for_mat, openings_for_mat, k) ==
    IF k > Min(Len(points_for_mat), Len(openings_for_mat))
    THEN [acc EXCEPT !.num = acc.num + width(mat)]
    ELSE ReducePoints_increment_after_loop(
            [ReducePoint(acc, mat, log_height, points_for_mat[k], openings_for_mat[k])
                EXCEPT !.num = acc.num],
            mat, log_height, points_for_mat, openings_for_mat, k + 1)

\* The loop of line 471 over the zipped points and openings of one matrix.
RECURSIVE ReducePoints(_, _, _, _, _, _)
ReducePoints(acc, mat, log_height, points_for_mat, openings_for_mat, k) ==
    IF k > Min(Len(points_for_mat), Len(openings_for_mat)) THEN acc
    ELSE ReducePoints(
            ReducePoint(acc, mat, log_height, points_for_mat[k], openings_for_mat[k]),
            mat, log_height, points_for_mat, openings_for_mat, k + 1)

\* Lines 449-501, one matrix: its reduced opening is created (zero, of the
\* matrix's full height) if it is the first of its height, then every opening
\* point of the matrix is reduced into it.
OpenReduce ==
    /\ pc = "open_reduce"
    /\ ~LoopDone(cursor)
    /\ LET mat == prover_data[cursor.r][cursor.j]
           log_height == log2_strict_usize(height(mat))
           ro0 == IF reduced_openings[log_height] = <<>>
                  THEN [i \in 1 .. height(mat) |-> 0]
                  ELSE reduced_openings[log_height]
           acc == ReducePoints(
                     [ro |-> ro0, num |-> num_reduced[log_height], log |-> reduce_log],
                     mat, log_height, points[cursor.r][cursor.j],
                     all_opened_values[cursor.r][cursor.j], 1)
       IN  /\ reduced_openings' = [reduced_openings EXCEPT ![log_height] = acc.ro]
           /\ num_reduced' = [num_reduced EXCEPT ![log_height] = acc.num]
           /\ reduce_log' = acc.log
    /\ cursor' = NextCursor(cursor)
    /\ UNCHANGED <<pc, commit_vars, geod, points, coset, inv_denoms, all_opened_values,
                   challenger, alpha, fri_input, proof, verify_vars, fold_vars>>

\* reduced_openings.into_iter().flatten(): the vectors present, smallest first.
RECURSIVE FriInputAscending(_, _)
FriInputAscending(ro, lh) ==
    IF lh > TWO_ADICITY THEN <<>>
    ELSE (IF ro[lh] = <<>> THEN <<>> ELSE <<ro[lh]>>) \o FriInputAscending(ro, lh + 1)

FriInput_no_rev(ro) == FriInputAscending(ro, 0)

\* reduced_openings.into_iter().rev().flatten(): the vectors present, from
\* the largest log_height down.
RECURSIVE FriInputFrom(_, _)
FriInputFrom(ro, lh) ==
    IF lh < 0 THEN <<>>
    ELSE (IF ro[lh] = <<>> THEN <<>> ELSE <<ro[lh]>>) \o FriInputFrom(ro, lh - 1)

FriInput(ro) == FriInputFrom(ro, TWO_ADICITY)

\* prover::prove_fri (collaborator): the proof binds the transcript it was
\* given and the input vectors.
prove_fri(inputs, log, log_max_height) ==
    [transcript |-> log, inputs |-> inputs, log_max_height |-> log_max_height]

\* Lines 506-521: the input of FRI, the proof, the return.
OpenProve ==
    /\ pc = "open_reduce"
    /\ LoopDone(cursor)
    /\ fri_input' = FriInput(reduced_openings)
    /\ proof' = prove_fri(FriInput(reduced_openings), challenger,
                          log2_strict_usize(global_max_height))
    /\ challenger' = Append(challenger, [op |-> "prove_fri", val |-> 0])
    /\ pc' = "opened"
    /\ UNCHANGED <<commit_vars, geod, points, cursor, coset, inv_denoms,
                   all_opened_values, alpha, num_reduced, reduced_openings, reduce_log,
                   verify_vars, fold_vars>>

(***************************************************************************)
(* The caller between open and verify: it hands the verifier, per            *)
(* commitment and matrix, the domain and the (point, claimed values) pairs,  *)
(* and the proof; either as open returned them or with one of them altered.  *)
(***************************************************************************)
\* commitments_with_opening_points built from what open returned.
HonestClaimed ==
    [r \in 1 .. Len(all_opened_values) |->
        [j \in 1 .. Len(all_opened_values[r]) |->
            [domain |-> evaluations[r][j].domain,
             openings |-> [k \in 1 .. Len(all_opened_values[r][j]) |->
                 [point |-> points[r][j][k], values |-> all_opened_values[r][j][k]]]]]]

\* The positions (commitment, matrix, point) of the claimed values.
ClaimPositions ==
    {<<r, j, k>> \in (1 .. MaxMats) \X (1 .. MaxMats) \X (1 .. 2) :
        /\ r <= Len(all_opened_values)
        /\ j <= Len(all_opened_values[r])
        /\ k <= Len(all_opened_values[r][j])}

SendHonest ==
    /\ pc = "opened"
    /\ claimed' = HonestClaimed
    /\ vproof' = proof
    /\ pc' = "verify"
    /\ UNCHANGED <<commit_vars, geod, open_vars, vcursor, vchallenger, fri_result,
                   verify_result, fold_vars>>

\* One claimed evaluation is changed.
SendAlteredValue ==
    /\ pc = "opened"
    /\ \E pos \in ClaimPositions :
         claimed' = [HonestClaimed EXCEPT
                       ![pos[1]][pos[2]].openings[pos[3]].values[1] = Add(@, 1)]
    /\ vproof' = proof
    /\ pc' = "verify"
    /\ UNCHANGED <<commit_vars, geod, open_vars, vcursor, vchallenger, fri_result,
                   verify_result, fold_vars>>

\* The proof is changed: an entry of its first vector, or a vector is dropped.
SendAlteredProof ==
    /\ pc = "opened"
    /\ claimed' = HonestClaimed
    /\ \/ vproof' = [proof EXCEPT !.inputs[1][1] = Add(@, 1)]
       \/ vproof' = [proof EXCEPT !.inputs = Tail(@)]
    /\ pc' = "verify"
    /\ UNCHANGED <<commit_vars, geod, open_vars, vcursor, vchallenger, fri_result,
                   verify_result, fold_vars>>

(***************************************************************************)
(* TwoAdicFriPcs::verify                                                    *)
(***************************************************************************)
\* The loops of lines 536-542 over one commitment, with the matrices taken
\* last to first.
VerifyRoundValues_mats_reversed(round) ==
    Flatten([j \in 1 .. Len(round) |->
        Flatten([k \in 1 .. Len(round[Len(round) + 1 - j].openings) |->
            round[Len(round) + 1 - j].openings[k].values])])

\* The loops of lines 536-542 over one commitment: the values observed, by
\* matrix, then point, then value.
VerifyRoundValues(round) ==
    Flatten([j \in 1 .. Len(round) |->
        Flatten([k \in 1 .. Len(round[j].openings) |-> round[j].openings[k].values])])

\* Lines 535-543, one commitment.
VerifyObserve ==
    /\ pc = "verify"
    /\ vcursor <= Len(claimed)
    /\ vchallenger' = ObserveAll(vchallenger, VerifyRoundValues(claimed[vcursor]))
    /\ vcursor' = vcursor + 1
    /\ UNCHANGED <<pc, commit_vars, geod, open_vars, claimed, vproof, fri_result,
                   verify_result, fold_vars>>

Ok == [ok |-> TRUE, err |-> "none"]

Err(e) == [ok |-> FALSE, err |-> e]

\* The vector vec, evaluations in bit-reversed order over the coset
\* GENERATOR * K with |K| = Len(vec), is of degree < Len(vec) >> log_blowup.
LowDegree(vec) ==
    LET n == log2_strict_usize(Len(vec))
        xs == reverse_slice_index_bits(CosetIter(GENERATOR, n))
        h == Len(vec) \div Pow2(log_blowup)
    IN  \A i \in 1 .. Len(vec) :
           Lagrange(SubSeq(xs, 1, h), SubSeq(vec, 1, h), xs[i]) = vec[i]

\* verifier::verify_fri (collaborator): samples alpha, then accepts when the
\* proof has one vector per committed height, its challenges are those of the
\* verifier's transcript, and every vector passes the low-degree test.
verify_fri(prf, log, cwop) ==
    LET transcript == Append(log, Sample(log))
        heights == UNION {{DomainSize(cwop[r][j].domain) * Pow2(log_blowup) :
                              j \in 1 .. Len(cwop[r])} : r \in 1 .. Len(cwop)}
    IN  IF {Len(prf.inputs[i]) : i \in 1 .. Len(prf.inputs)} # heights
           \/ Len(prf.inputs) # Cardinality(heights)
        THEN Err("InvalidProofShape")
        ELSE IF transcript # prf.transcript
                \/ \E i \in 1 .. Len(prf.inputs) : ~LowDegree(prf.inputs[i])
        THEN Err("FinalPolyMismatch")
        ELSE Ok

\* verify answering Ok(()) whatever verify_fri returned.
VerifyReturn_always_ok(res) == Ok

\* Lines 547-556: verify_fri(..)? ; Ok(()) - an error is returned as it is.
VerifyReturn(res) == IF res.ok THEN Ok ELSE res

\* Lines 545-556: the call of verify_fri and the return of verify.
VerifyFri ==
    /\ pc = "verify"
    /\ vcursor > Len(claimed)
    /\ fri_result' = verify_fri(vproof, vchallenger, claimed)
    /\ verify_result' = VerifyReturn(verify_fri(vproof, vchallenger, claimed))
    /\ vchallenger' = vchallenger \o <<Sample(vchallenger), [op |-> "verify_fri", val |-> 0]>>
    /\ pc' = "verified"
    /\ UNCHANGED <<commit_vars, geod, open_vars, claimed, vproof, vcursor, fold_vars>>

(***************************************************************************)
(* The commitment scheme as a state machine: commit for each commitment of   *)
(* the batch, open, verify.                                                  *)
(***************************************************************************)
Entry(pair, pts) == [pair |-> pair, points |-> pts]

\* The (domain, matrix, opening points) explored: 3 = GENERATOR lies on
\* every coset GENERATOR * K, 2 and 9 on none.
Entries ==
    {Entry(Pair(1, 1, MatA), <<2, 9>>),
     Entry(Pair(1, 2, MatB), <<2>>),
     Entry(Pair(2, 1, MatC), <<>>),
     Entry(Pair(1, 0, MatD), <<9>>),
     Entry(Pair(2, 1, MatC), <<3>>)}

\* The k-th smallest element of the set S of numbers.
RECURSIVE KthSmallest(_, _)
KthSmallest(S, k) ==
    LET m == CHOOSE x \in S : \A y \in S : x <= y
    IN  IF k = 1 THEN m ELSE KthSmallest(S \ {m}, k - 1)

\* flat cut into consecutive non-empty rounds, a new one after each cut.
Split(flat, cuts) ==
    LET starts == {1} \cup {c + 1 : c \in cuts}
        nr == Cardinality(starts)
        EndOf(i) == IF i = nr THEN Len(flat) ELSE KthSmallest(starts, i + 1) - 1
    IN  [i \in 1 .. nr |-> SubSeq(flat, KthSmallest(starts, i), EndOf(i))]

\* The sequences of SeqsUpTo(S, n) that repeat no element.
DistinctSeqsUpTo(S, n) ==
    {s \in SeqsUpTo(S, n) :
        \A i \in 1 .. Len(s) : \A j \in 1 .. Len(s) : s[i] = s[j] => i = j}

\* The batches: at most MaxMats distinct entries, in any order, in one
\* commitment or several; and the batch of no commitment.
Batches ==
    {<<>>} \cup
    UNION {{Split(flat, cuts) : cuts \in SUBSET (1 .. (Len(flat) - 1))} :
              flat \in DistinctSeqsUpTo(Entries, MaxMats)}

PcsInit ==
    /\ FoldIdle
    /\ \E batch \in Batches :
         /\ evaluations = [r \in 1 .. Len(batch) |->
                              [j \in 1 .. Len(batch[r]) |-> batch[r][j].pair]]
         /\ points = [r \in 1 .. Len(batch) |->
                         [j \in 1 .. Len(batch[r]) |-> batch[r][j].points]]
         /\ pc = IF batch = <<>> THEN "committed" ELSE "commit"
    /\ prover_data = <<>>
    /\ geod = NoGeod
    /\ OpenIdle
    /\ VerifyIdle

Next ==
    \/ Commit
    \/ OpenStart
    \/ OpenEvaluate
    \/ OpenSample
    \/ OpenReduce
    \/ OpenProve
    \/ SendHonest
    \/ SendAlteredValue
    \/ SendAlteredProof
    \/ VerifyObserve
    \/ VerifyFri

Spec == PcsInit /\ [][Next]_vars

\* One call of commit on 1 .. MaxMats pairs, then lookups on what it stored.
CommitInit ==
    /\ FoldIdle
    /\ pc = "commit"
    /\ \E round \in SeqsUpTo(ValidPairs \cup BadPairs, MaxMats) : evaluations = <<round>>
    /\ prover_data = <<>>
    /\ geod = NoGeod
    /\ OpenIdle
    /\ points = <<>>
    /\ VerifyIdle

CommitNext == Commit \/ GetEvaluationsOnDomain

SpecCommit == CommitInit /\ [][CommitNext]_vars

(***************************************************************************)
(* Claims about commit and get_evaluations_on_domain (under SpecCommit).    *)
(***************************************************************************)
\* The value at u of column c of the polynomial committed for a pair: the one
\* of degree < height through the pair's evaluations over its domain.
CommittedPoly(pair, c, u) ==
    Lagrange(CosetIter(pair.domain.shift, pair.domain.log_size),
             Column(pair.evals, c), u)

\* C6: commit fails fast, with no mmcs.commit call, whenever some pair of its
\* input has domain.size() # matrix.height(); a commit that went through had
\* no such pair and made one mmcs.commit call handing over, in input order, one
\* matrix per pair, of height matrix.height() << log_blowup, holding that
\* pair's polynomial.
C6_CommitFailsFast ==
    /\ pc = "commit_panic" =>
          \E j \in 1 .. Len(evaluations[Len(prover_data) + 1]) :
             LET pair == evaluations[Len(prover_data) + 1][j]
             IN  Pow2(pair.domain.log_size) # Len(pair.evals)
    /\ pc = "committed" => Len(prover_data) = Len(evaluations)
    /\ \A r \in 1 .. Len(prover_data) :
          /\ Len(prover_data[r]) = Len(evaluations[r])
          /\ \A j \in 1 .. Len(evaluations[r]) :
                LET pair == evaluations[r][j]
                    lde == prover_data[r][j]
                    n == pair.domain.log_size + log_blowup
                IN  /\ Pow2(pair.domain.log_size) = Len(pair.evals)
                    /\ Len(lde) = Len(pair.evals) * Pow2(log_blowup)
                    /\ \A i \in 1 .. Len(lde) : \A c \in 1 .. Len(pair.evals[1]) :
                          lde[i][c] =
                             CommittedPoly(pair, c,
                                Mul(GENERATOR,
                                    exp_u64(two_adic_generator(n),
                                            reverse_bits_len(i - 1, n))))

\* C6 witness: commit fails on a mismatched pair that follows a matching one,
\* and nothing was handed to the MMCS.
C6_Witness ==
    /\ pc = "commit_panic"
    /\ prover_data = <<>>
    /\ Len(evaluations[1]) >= 2
    /\ evaluations[1][1] \in ValidPairs
    /\ evaluations[1][Len(evaluations[1])] \in BadPairs

GeodCalled == geod.outcome # "none"

\* C7: for a stored matrix at the given index, get_evaluations_on_domain fails
\* on an assertion if and only if the domain's shift is not GENERATOR or the
\* domain's size exceeds the stored matrix's height; in every other case it
\* returns a view of exactly domain.size() rows.
C7_GeodFailsIff ==
    (GeodCalled /\ geod.idx < Len(prover_data[geod.round])) =>
        LET lde == prover_data[geod.round][geod.idx + 1]
            bad == \/ geod.domain.shift # GENERATOR
                   \/ Pow2(geod.domain.log_size) > Len(lde)
        IN  /\ geod.outcome \in {"assert_shift", "assert_height"} <=> bad
            /\ ~bad => /\ geod.outcome = "ok"
                       /\ Len(geod.view) = Pow2(geod.domain.log_size)

\* C7 witness: a lookup of the whole stored matrix (domain.size() equal to its
\* height) succeeds.
C7_Witness ==
    /\ GeodCalled
    /\ geod.idx < Len(prover_data[geod.round])
    /\ geod.outcome = "ok"
    /\ Len(geod.view) = Len(prover_data[geod.round][geod.idx + 1])
    /\ Len(geod.view) >= 4

\* C8: for a stored matrix of height N = 2^n and a domain of size 2^k <= N with
\* the canonical shift, row j of the returned view is natural-order LDE row
\* j * 2^(n-k) (held by stored row bitrev(j * 2^(n-k), n)), which is the
\* committed polynomial's value at the j-th point of the coset GENERATOR * K,
\* |K| = 2^k, in natural order.
C8_GeodNaturalOrder ==
    (GeodCalled /\ geod.outcome = "ok") =>
        LET pair == evaluations[geod.round][geod.idx + 1]
            lde == prover_data[geod.round][geod.idx + 1]
            n == log2_strict_usize(Len(lde))
            k == geod.domain.log_size
        IN  \A j \in 0 .. (Pow2(k) - 1) :
               /\ geod.view[j + 1] = lde[reverse_bits_len(j * Pow2(n - k), n) + 1]
               /\ \A c \in 1 .. Len(pair.evals[1]) :
                     geod.view[j + 1][c] =
                        CommittedPoly(pair, c,
                           Mul(GENERATOR, exp_u64(two_adic_generator(k), j)))

\* C8 witness: a view of 4 rows onto a stored matrix of 8 rows.
C8_Witness ==
    /\ GeodCalled
    /\ geod.outcome = "ok"
    /\ geod.domain.log_size = 2
    /\ Len(prover_data[geod.round][geod.idx + 1]) = 8
    /\ geod.view[2] = prover_data[geod.round][geod.idx + 1][5]
    /\ geod.view[2] # prover_data[geod.round][geod.idx + 1][2]

(***************************************************************************)
(* Claims about open and verify (checked under Spec).                       *)
(***************************************************************************)
\* The values of the leading observe calls of a transcript.
RECURSIVE LeadingObserved(_)
LeadingObserved(log) ==
    IF log = <<>> \/ log[1].op # "observe" THEN <<>>
    ELSE <<log[1].val>> \o LeadingObserved(Tail(log))

\* Nested values in the order commitment, matrix, point, column.
InOrder(values) ==
    Flatten([r \in 1 .. Len(values) |->
        Flatten([j \in 1 .. Len(values[r]) |-> Flatten(values[r][j])])])

\* The claimed values handed to verify, nested as open's return value is.
ClaimedValues ==
    [r \in 1 .. Len(claimed) |->
        [j \in 1 .. Len(claimed[r]) |->
            [k \in 1 .. Len(claimed[r][j].openings) |->
                claimed[r][j].openings[k].values]]]

ClaimedPoints ==
    [r \in 1 .. Len(claimed) |->
        [j \in 1 .. Len(claimed[r]) |->
            [k \in 1 .. Len(claimed[r][j].openings) |->
                claimed[r][j].openings[k].point]]]

\* verify was given the points, the opened values and the proof of open.
VerifierGivenOpenOutput ==
    /\ pc \in {"verify", "verified"}
    /\ ClaimedValues = all_opened_values
    /\ ClaimedPoints = points
    /\ vproof = proof

IsPrefix(s, t) == Len(s) <= Len(t) /\ s = SubSeq(t, 1, Len(s))

\* C1: given the opened values open returned, what verify has observed is at
\* every moment a prefix of what open observed before sampling alpha, and once
\* verify's loops have ended (before verify_fri) the two sequences are the
\* same, element by element: the opened values ordered by commitment, then
\* matrix, then point, then column.
C1_TranscriptOrder ==
    (pc \in {"verify", "verified"} /\ ClaimedValues = all_opened_values) =>
        /\ IsPrefix(LeadingObserved(vchallenger), LeadingObserved(challenger))
        /\ vcursor > Len(claimed) =>
              /\ LeadingObserved(vchallenger) = LeadingObserved(challenger)
              /\ LeadingObserved(vchallenger) = InOrder(all_opened_values)
              /\ challenger[Len(LeadingObserved(challenger)) + 1].op = "sample"

\* C1 witness: verify has observed, in open's order, the values of a batch of
\* two commitments, one of them with a matrix of two columns opened at two points.
C1_Witness ==
    /\ pc = "verify"
    /\ vcursor > Len(claimed)
    /\ ClaimedValues = all_opened_values
    /\ Len(claimed) = 2
    /\ \E r \in 1 .. 2 : \E j \in 1 .. Len(claimed[r]) :
          /\ Len(claimed[r][j].openings) = 2
          /\ Len(claimed[r][j].openings[1].values) = 2
    /\ Len(vchallenger) >= 5
    /\ LeadingObserved(vchallenger) = LeadingObserved(challenger)

SampleCalls == {i \in 1 .. Len(challenger) : challenger[i].op = "sample"}

\* Every matrix of the batch has its values, for each of its points, in
\* all_opened_values.
AllEvaluated ==
    /\ Len(all_opened_values) = Len(prover_data)
    /\ \A r \in 1 .. Len(prover_data) :
          /\ Len(all_opened_values[r]) = Len(prover_data[r])
          /\ \A j \in 1 .. Len(prover_data[r]) :
                /\ Len(all_opened_values[r][j]) = Len(points[r][j])
                /\ \A k \in 1 .. Len(points[r][j]) :
                      Len(all_opened_values[r][j][k]) = Len(prover_data[r][j][1])

\* C2: open samples alpha at most once, and exactly once in an execution that
\* returns; when it is sampled every evaluation of the whole batch has been
\* observed and nothing else; before it is sampled no reduced opening has been
\* written and prove_fri has not been called; open observes nothing after it.
C2_AlphaBarrier ==
    /\ Cardinality(SampleCalls) <= 1
    /\ alpha # -1 <=> SampleCalls # {}
    /\ pc \in {"opened", "verify", "verified"} => Cardinality(SampleCalls) = 1
    /\ SampleCalls = {} =>
          /\ \A lh \in LogHeights : reduced_openings[lh] = <<>>
          /\ reduce_log = <<>>
          /\ fri_input = <<>>
          /\ proof = NoProof
          /\ \A i \in 1 .. Len(challenger) : challenger[i].op = "observe"
    /\ \A s \in SampleCalls :
          /\ AllEvaluated
          /\ \A i \in 1 .. (s - 1) : challenger[i].op = "observe"
          /\ [i \in 1 .. (s - 1) |-> challenger[i].val] = InOrder(all_opened_values)
          /\ challenger[s].val = alpha
          /\ \A i \in (s + 1) .. Len(challenger) :
                challenger[i].op = "prove_fri" /\ i = s + 1 /\ proof # NoProof

\* C2 witness: alpha was sampled after four or more evaluations were observed,
\* a reduced opening has since been written, prove_fri has not been called.
C2_Witness ==
    /\ pc = "open_reduce"
    /\ alpha # -1
    /\ Len(challenger) >= 5
    /\ challenger[Len(challenger)].op = "sample"
    /\ \E lh \in LogHeights : reduced_openings[lh] # <<>>

\* An opening point lies on the coset GENERATOR * K of a matrix opened at it.
PointOnCoset ==
    \E r \in 1 .. Len(evaluations) : \E j \in 1 .. Len(evaluations[r]) :
       \E k \in 1 .. Len(points[r][j]) :
          LET n == evaluations[r][j].domain.log_size + log_blowup
          IN  \E i \in 0 .. (Pow2(n) - 1) :
                 points[r][j][k] = Mul(GENERATOR, exp_u64(two_adic_generator(n), i))

\* C3 as stated: for any matrices and any opening points, commit, open and
\* verify (given what open returned) run through and verify returns success.
C3_RoundTripAnyPoints ==
    /\ (pc = "verified" /\ VerifierGivenOpenOutput) => verify_result = Ok
    /\ evaluations # <<>> => pc \notin {"commit_panic", "open_panic"}

\* C3, amended: for a non-empty batch of matrices of power-of-two heights and
\* opening points none of which lies on the coset GENERATOR * K of a matrix
\* opened at it, commit, open and verify (given the points, the opened values
\* and the proof open returned, on a transcript in the same initial state) run
\* through and verify returns success; open panics exactly on the other batches.
C3_RoundTrip ==
    /\ (pc = "verified" /\ VerifierGivenOpenOutput) => verify_result = Ok
    /\ pc # "commit_panic"
    /\ pc = "open_panic" => (evaluations = <<>> \/ PointOnCoset)
    /\ (pc \in {"open_eval", "open_reduce", "opened", "verify", "verified"}) =>
          (evaluations # <<>> /\ ~PointOnCoset)

\* C3 witness: verify returned success for a batch of two commitments holding
\* matrices of two heights, one of them opened at two points.
C3_Witness ==
    /\ pc = "verified"
    /\ VerifierGivenOpenOutput
    /\ verify_result = Ok
    /\ Len(prover_data) = 2
    /\ Len(fri_input) >= 2
    /\ \E r \in 1 .. 2 : \E j \in 1 .. Len(points[r]) : Len(points[r][j]) = 2

\* C9: verify returns what verify_fri returned - success exactly when
\* verify_fri succeeded, the same error otherwise - and by then every claimed
\* evaluation has been observed, in order, before verify_fri was called; verify
\* has no result before.
C9_VerifyDelegates ==
    /\ pc # "verified" => (verify_result = NoResult /\ fri_result = NoResult)
    /\ pc = "verified" =>
          /\ verify_result.ok <=> fri_result.ok
          /\ verify_result = fri_result
          /\ fri_result # NoResult
          /\ LeadingObserved(vchallenger) = InOrder(ClaimedValues)
          /\ vchallenger[Len(InOrder(ClaimedValues)) + 1].op = "sample"
          /\ vchallenger[Len(vchallenger)].op = "verify_fri"

\* C9 witness: verify_fri rejected and verify returned its error, after three
\* or more claimed evaluations were observed.
C9_Witness ==
    /\ pc = "verified"
    /\ fri_result = Err("FinalPolyMismatch")
    /\ verify_result = Err("FinalPolyMismatch")
    /\ Len(InOrder(ClaimedValues)) >= 3

BatchHeights ==
    {height(MatsAndPoints[i].mat) : i \in 1 .. Len(MatsAndPoints)}

\* C10: a reduced opening exists only for a log-height of the batch; the input
\* open passes to prove_fri holds exactly one vector per distinct matrix height
\* of the batch, of that length, the vectors in strictly decreasing length.
C10_FriInputByHeight ==
    /\ \A lh \in LogHeights :
          reduced_openings[lh] # <<>> =>
             (Pow2(lh) \in BatchHeights /\ Len(reduced_openings[lh]) = Pow2(lh))
    /\ pc \in {"opened", "verify", "verified"} =>
          /\ proof.inputs = fri_input
          /\ Len(fri_input) = Cardinality(BatchHeights)
          /\ \A i \in 1 .. Len(fri_input) : Len(fri_input[i]) \in BatchHeights
          /\ \A i \in 1 .. Len(fri_input) : \A j \in 1 .. Len(fri_input) :
                i < j => Len(fri_input[i]) > Len(fri_input[j])

\* C10 witness: open returned for a batch whose first matrix is shorter than
\* a later one and that holds two matrices of one height: two vectors, the
\* longer first.
C10_Witness ==
    /\ pc = "opened"
    /\ Len(MatsAndPoints) = 3
    /\ height(MatsAndPoints[1].mat) < height(MatsAndPoints[2].mat)
    /\ height(MatsAndPoints[3].mat) = height(MatsAndPoints[1].mat)
    /\ Len(fri_input) = 2
    /\ Len(fri_input[1]) = height(MatsAndPoints[2].mat)
    /\ Len(fri_input[2]) = height(MatsAndPoints[1].mat)

\* The elements of a sequence.
Range(s) == {s[i] : i \in 1 .. Len(s)}

\* C11: for all j < k, the first 2^j entries of the bit-reversed coset table
\* of height 2^k are, entry by entry, the bit-reversed coset table built at
\* height 2^j, and so are the coset GENERATOR * K with |K| = 2^j; this holds of
\* every table up to the field's two-adicity and of the table open builds.
C11_CosetPrefix ==
    /\ \A k \in 0 .. TWO_ADICITY : \A j \in 0 .. (k - 1) :
          /\ SubSeq(CosetTable(k), 1, Pow2(j)) = CosetTable(j)
          /\ Range(SubSeq(CosetTable(k), 1, Pow2(j))) = Range(CosetIter(GENERATOR, j))
    /\ coset # <<>> =>
          /\ Len(coset) = global_max_height
          /\ \A j \in 0 .. (log2_strict_usize(Len(coset)) - 1) :
                /\ SubSeq(coset, 1, Pow2(j)) = CosetTable(j)
                /\ Range(SubSeq(coset, 1, Pow2(j))) = Range(CosetIter(GENERATOR, j))

\* C11 witness: open has built the table of height 8, which is not the coset
\* in natural order, and its first four entries are the table of height 4.
C11_Witness ==
    /\ pc = "open_eval"
    /\ Len(coset) = 8
    /\ coset # CosetIter(GENERATOR, 3)
    /\ SubSeq(coset, 1, 4) = CosetTable(2)
    /\ SubSeq(coset, 1, 4) # SubSeq(CosetIter(GENERATOR, 3), 1, 4)

(***************************************************************************)
(* commit and open alone, on batches that stack matrices of one height.     *)
(***************************************************************************)
OpenEntries ==
    {Entry(Pair(1, 1, MatA), <<2>>),
     Entry(Pair(2, 1, MatC), <<2>>),
     Entry(Pair(1, 1, MatA), <<2, 9>>),
     Entry(Pair(1, 2, MatB), <<9>>),
     Entry(Pair(1, 0, MatD), <<2>>)}

\* At most MaxMats distinct entries, in any order, in one commitment or several.
OpenBatches ==
    UNION {{Split(flat, cuts) : cuts \in SUBSET (1 .. (Len(flat) - 1))} :
              flat \in DistinctSeqsUpTo(OpenEntries, MaxMats)}

OpenInit ==
    /\ FoldIdle
    /\ \E batch \in OpenBatches :
         /\ evaluations = [r \in 1 .. Len(batch) |->
                              [j \in 1 .. Len(batch[r]) |-> batch[r][j].pair]]
         /\ points = [r \in 1 .. Len(batch) |->
                         [j \in 1 .. Len(batch[r]) |-> batch[r][j].points]]
    /\ pc = "commit"
    /\ prover_data = <<>>
    /\ geod = NoGeod
    /\ OpenIdle
    /\ VerifyIdle

OpenNext ==
    \/ Commit
    \/ OpenStart
    \/ OpenEvaluate
    \/ OpenSample
    \/ OpenReduce
    \/ OpenProve

SpecOpen == OpenInit /\ [][OpenNext]_vars

(***************************************************************************)
(* Claims about the reduced openings (checked under SpecOpen).              *)
(***************************************************************************)
\* The positions in MatsAndPoints of the matrices of height 2^lh.
MatsAtHeight(lh) ==
    {i \in 1 .. Len(MatsAndPoints) : height(MatsAndPoints[i].mat) = Pow2(lh)}

\* Column c of a stored matrix, as the polynomial through its values on the
\* coset, at the point z.
ColumnAt(mat, c, z) == Lagrange(SubSeq(coset, 1, height(mat)), Column(mat, c), z)

\* C_i at row x and at the point z: the columns weighted by 1, alpha, alpha^2, ...
CombinedAtRow(mat, i) ==
    SumSeq([c \in 1 .. width(mat) |-> Mul(exp_u64(alpha, c - 1), mat[i][c])])

CombinedAt(mat, z) ==
    SumSeq([c \in 1 .. width(mat) |-> Mul(exp_u64(alpha, c - 1), ColumnAt(mat, c, z))])

\* Q_i: the quotient vector (C_i(z) - C_i(x)) / (z - x) of one matrix on its own.
Quotient(mat, z) ==
    [i \in 1 .. height(mat) |->
        Mul(Sub(CombinedAt(mat, z), CombinedAtRow(mat, i)), inverse(Sub(z, coset[i])))]

\* Exactly the matrices at positions a < b have height 2^lh, each opened at
\* the single point z.
TwoStackedAt(lh, a, b, z) ==
    /\ a < b
    /\ MatsAtHeight(lh) = {a, b}
    /\ MatsAndPoints[a].points = <<z>>
    /\ MatsAndPoints[b].points = <<z>>

\* C12: when exactly two matrices M0 (width w0) and M1 of one height are each
\* opened at the same single point z, in that order, the reduced opening of
\* that height is Q0(x) + alpha^w0 * Q1(x) at every row x, Qi the quotient
\* vector of Mi computed on its own.
C12_QuotientLinearity ==
    pc = "opened" =>
       \A lh \in LogHeights : \A a, b \in 1 .. Len(MatsAndPoints) : \A z \in F :
          TwoStackedAt(lh, a, b, z) =>
             LET M0 == MatsAndPoints[a].mat
                 M1 == MatsAndPoints[b].mat
                 Q0 == Quotient(M0, z)
                 Q1 == Quotient(M1, z)
             IN  reduced_openings[lh] =
                    [i \in 1 .. Pow2(lh) |->
                        Add(Q0[i], Mul(exp_u64(alpha, width(M0)), Q1[i]))]

\* C12 witness: open has reduced a matrix of two columns and then one of one
\* column, both of height 4 and opened at one point; alpha^2 is not 1 and the
\* second quotient is not zero, so the offset shows in the reduced opening.
C12_Witness ==
    /\ pc = "opened"
    /\ \E a, b \in 1 .. Len(MatsAndPoints) : \E z \in F :
          /\ TwoStackedAt(2, a, b, z)
          /\ width(MatsAndPoints[a].mat) = 2
          /\ width(MatsAndPoints[b].mat) = 1
          /\ exp_u64(alpha, 2) # 1
          /\ \E i \in 1 .. 4 : Quotient(MatsAndPoints[b].mat, z)[i] # 0
          /\ reduced_openings[2] # Quotient(MatsAndPoints[a].mat, z)

\* The sum of a sequence of integers.
RECURSIVE IntSum(_)
IntSum(s) == IF s = <<>> THEN 0 ELSE s[1] + IntSum(Tail(s))

\* The sum of the widths of the matrices of height 2^lh.
WidthsAtHeight(lh) ==
    IntSum([i \in 1 .. Len(MatsAndPoints) |->
        IF i \in MatsAtHeight(lh) THEN width(MatsAndPoints[i].mat) ELSE 0])

\* The sum, over the matrices of height 2^lh, of width times number of points.
WidthsTimesPointsAtHeight(lh) ==
    IntSum([i \in 1 .. Len(MatsAndPoints) |->
        IF i \in MatsAtHeight(lh)
        THEN width(MatsAndPoints[i].mat) * Len(MatsAndPoints[i].points) ELSE 0])

\* The sum of the widths of the contributions reduce_log holds before the
\* k-th for log-height lh.
ReducedBefore(k, lh) ==
    IntSum([m \in 1 .. (k - 1) |->
        IF reduce_log[m].log_height = lh THEN reduce_log[m].width ELSE 0])

\* C13 as stated: the offset of a height grows by a matrix's width once per
\* matrix, so all opening points of one matrix are scaled by the same
\* alpha^offset and the final offset of a height is the sum of the widths of
\* the matrices of that height.
C13_OffsetPerMatrix ==
    /\ \A k, m \in 1 .. Len(reduce_log) :
          (reduce_log[k].r = reduce_log[m].r /\ reduce_log[k].j = reduce_log[m].j) =>
             reduce_log[k].offset = reduce_log[m].offset
    /\ pc = "opened" =>
          \A lh \in LogHeights : num_reduced[lh] = WidthsAtHeight(lh)

\* C13, amended: the offset of a height grows by a matrix's width once per
\* opening point of the matrix, right after that point is reduced: each
\* contribution is scaled by alpha^offset, offset the sum of the widths of the
\* contributions made before it at that height, the next point of the same
\* matrix by alpha^(offset + width), and the final offset of a height is the
\* sum over its matrices of width times number of opening points; a matrix
\* alone at its height opened at z1 then z2 leaves Q(z1) + alpha^width * Q(z2).
C13_OffsetPerPoint ==
    /\ \A k \in 1 .. Len(reduce_log) :
          /\ reduce_log[k].offset = ReducedBefore(k, reduce_log[k].log_height)
          /\ (k > 1 /\ reduce_log[k - 1].r = reduce_log[k].r
                    /\ reduce_log[k - 1].j = reduce_log[k].j) =>
                reduce_log[k].offset = reduce_log[k - 1].offset + reduce_log[k].width
    /\ \A lh \in LogHeights :
          num_reduced[lh] = ReducedBefore(Len(reduce_log) + 1, lh)
    /\ pc = "opened" =>
          \A lh \in LogHeights :
             /\ num_reduced[lh] = WidthsTimesPointsAtHeight(lh)
             /\ \A a \in 1 .. Len(MatsAndPoints) :
                   (MatsAtHeight(lh) = {a} /\ Len(MatsAndPoints[a].points) = 2) =>
                      LET M == MatsAndPoints[a].mat
                          Q1 == Quotient(M, MatsAndPoints[a].points[1])
                          Q2 == Quotient(M, MatsAndPoints[a].points[2])
                      IN  reduced_openings[lh] =
                             [i \in 1 .. Pow2(lh) |->
                                 Add(Q1[i], Mul(exp_u64(alpha, width(M)), Q2[i]))]

\* C13 witness: open has reduced a matrix of two columns at two points, the
\* second point at offset 2, and the offset of its height ends at 4 or more.
C13_Witness ==
    /\ pc = "opened"
    /\ \E k \in 2 .. Len(reduce_log) :
          /\ reduce_log[k - 1].r = reduce_log[k].r
          /\ reduce_log[k - 1].j = reduce_log[k].j
          /\ reduce_log[k].width = 2
          /\ reduce_log[k - 1].offset = 0
          /\ reduce_log[k].offset = 2
          /\ num_reduced[reduce_log[k].log_height] >= 4
          /\ num_reduced[reduce_log[k].log_height] >
                WidthsAtHeight(reduce_log[k].log_height)

\* The alpha exponents offset .. offset + width - 1 of a contribution.
ExponentRange(e) == e.offset .. (e.offset + e.width - 1)

\* C14: within one height the alpha-exponent ranges [offset, offset + width)
\* of the contributions reduced so far - from different matrices or from
\* different opening points of one matrix - are pairwise disjoint.
C14_ExponentRangesDisjoint ==
    \A k, m \in 1 .. Len(reduce_log) :
       (k # m /\ reduce_log[k].log_height = reduce_log[m].log_height) =>
          ExponentRange(reduce_log[k]) \cap ExponentRange(reduce_log[m]) = {}

\* C14 witness: three contributions to one height, two of them the two opening
\* points of one matrix and one from another matrix, on disjoint ranges.
C14_Witness ==
    /\ pc = "opened"
    /\ \E k, m, n \in 1 .. Len(reduce_log) :
          /\ k < m /\ m # n /\ k # n
          /\ reduce_log[k].log_height = reduce_log[m].log_height
          /\ reduce_log[k].log_height = reduce_log[n].log_height
          /\ reduce_log[k].r = reduce_log[m].r /\ reduce_log[k].j = reduce_log[m].j
          /\ <<reduce_log[n].r, reduce_log[n].j>> # <<reduce_log[k].r, reduce_log[k].j>>
          /\ reduce_log[k].width = 2
          /\ ExponentRange(reduce_log[k]) \cap ExponentRange(reduce_log[m]) = {}
          /\ ExponentRange(reduce_log[k]) \cap ExponentRange(reduce_log[n]) = {}
          /\ ExponentRange(reduce_log[m]) \cap ExponentRange(reduce_log[n]) = {}

\* A stored matrix with the rows after its first height >> log_blowup zeroed.
ZeroBeyondPrefix(mat) ==
    [i \in 1 .. height(mat) |->
        IF i <= height(mat) \div Pow2(log_blowup) THEN mat[i]
        ELSE [c \in 1 .. width(mat) |-> 0]]

\* The reduced opening of height 2^lh, summed row by row from the contributions
\* of reduce_log: alpha^offset * (C(z) - C(x)) / (z - x), C(x) read from row x
\* of the stored matrix, or of the matrix with its rows beyond the prefix zeroed.
ReducedFromRows(lh, zero_tail) ==
    LET Mat(k) == prover_data[reduce_log[k].r][reduce_log[k].j]
        Rows(k) == IF zero_tail THEN ZeroBeyondPrefix(Mat(k)) ELSE Mat(k)
        Cz == [k \in 1 .. Len(reduce_log) |-> CombinedAt(Mat(k), reduce_log[k].point)]
    IN  [i \in 1 .. Pow2(lh) |->
           SumSeq([k \in 1 .. Len(reduce_log) |->
              IF reduce_log[k].log_height # lh THEN 0
              ELSE Mul(exp_u64(alpha, reduce_log[k].offset),
                       Mul(Sub(Cz[k], CombinedAtRow(Rows(k), i)),
                           inverse(Sub(reduce_log[k].point, coset[i]))))])]

\* The opened values do not depend on the rows beyond the prefix.
EvaluationReadsPrefixOnly ==
    \A r \in 1 .. Len(all_opened_values) : \A j \in 1 .. Len(all_opened_values[r]) :
       \A k \in 1 .. Len(all_opened_values[r][j]) :
          all_opened_values[r][j][k] =
             OpenedValuesAt(ZeroBeyondPrefix(prover_data[r][j]), points[r][j][k])

\* C15 as stated: the rows of a matrix beyond its first height >> log_blowup
\* take part neither in its evaluation nor in its contribution to the reduced
\* opening: both are what they would be with those rows zeroed.
C15_OnlyPrefixParticipates ==
    /\ EvaluationReadsPrefixOnly
    /\ pc = "opened" =>
          \A lh \in LogHeights :
             reduced_openings[lh] # <<>> =>
                reduced_openings[lh] = ReducedFromRows(lh, TRUE)

\* C15, amended: only the first height >> log_blowup rows of a matrix take
\* part in its evaluation at its opening points; its contribution to the
\* reduced opening has one entry for every stored row x,
\* alpha^offset * (C(z) - C(x)) / (z - x), read from that row.
C15_PrefixEvaluatesAllRowsReduce ==
    /\ EvaluationReadsPrefixOnly
    /\ pc = "opened" =>
          \A lh \in LogHeights :
             reduced_openings[lh] # <<>> =>
                /\ Len(reduced_openings[lh]) = Pow2(lh)
                /\ reduced_openings[lh] = ReducedFromRows(lh, FALSE)

\* C15 witness: open has evaluated and reduced a stored matrix of 8 rows at a
\* point; the opened values are those of its first 4 rows, and the reduced
\* opening differs, in a row beyond the fourth, from the one the first 4 rows
\* alone would give.
C15_Witness ==
    /\ pc = "opened"
    /\ EvaluationReadsPrefixOnly
    /\ \E k \in 1 .. Len(reduce_log) : reduce_log[k].log_height = 3
    /\ reduced_openings[3] = ReducedFromRows(3, FALSE)
    /\ \E i \in 5 .. 8 : reduced_openings[3][i] # ReducedFromRows(3, TRUE)[i]
    /\ \A i \in 1 .. 4 : reduced_openings[3][i] = ReducedFromRows(3, TRUE)[i]

\* The positions in MatsAndPoints of the matrices opened at z.
OpenedAt(z) ==
    {i \in 1 .. Len(MatsAndPoints) :
        \E k \in 1 .. Len(MatsAndPoints[i].points) : MatsAndPoints[i].points[k] = z}

\* The distinct opening points of the whole batch.
BatchPoints ==
    UNION {Range(MatsAndPoints[i].points) : i \in 1 .. Len(MatsAndPoints)}

\* C16: once compute_inverse_denominators has returned, inv_denoms has one
\* entry per distinct opening point z of the batch and no other; the entry has
\* as many elements as the tallest stored matrix opened at z has rows, its
\* i-th element the inverse of z - coset[i]; so for every matrix opened at z
\* the entry is at least as long as the matrix is tall, and its prefix of that
\* length holds the inverses of z - x over the coset table of that height.
C16_InverseDenominators ==
    pc \in {"open_eval", "open_reduce", "opened"} =>
       /\ DOMAIN inv_denoms = BatchPoints
       /\ \A z \in BatchPoints :
             /\ \E i \in OpenedAt(z) : Len(inv_denoms[z]) = height(MatsAndPoints[i].mat)
             /\ \A i \in 1 .. Len(inv_denoms[z]) :
                   Mul(inv_denoms[z][i], Sub(z, coset[i])) = 1
             /\ \A m \in OpenedAt(z) :
                   LET h == height(MatsAndPoints[m].mat)
                   IN  /\ Len(inv_denoms[z]) >= h
                       /\ SubSeq(inv_denoms[z], 1, h) =
                             [i \in 1 .. h |->
                                inverse(Sub(z, CosetTable(log2_strict_usize(h))[i]))]

\* C16 witness: a point opened on a matrix of 8 stored rows before one of 4
\* has an entry of 8 inverses; another point, opened on 4 rows only, one of 4.
C16_Witness ==
    /\ pc = "open_eval"
    /\ BatchPoints = {2, 9}
    /\ Len(inv_denoms[9]) = 8
    /\ Len(inv_denoms[2]) = 4
    /\ \E a, b \in OpenedAt(9) :
          /\ a < b
          /\ height(MatsAndPoints[a].mat) = 8
          /\ height(MatsAndPoints[b].mat) = 4
    /\ Mul(inv_denoms[9][8], Sub(9, coset[8])) = 1

=============================================================================
